---- MODULE Spec2Model ----
(***************************************************************************)
(* Model of beacon_node/http_api/src/attestation_rewards.rs                *)
(* (compute_attestation_rewards) and of                                    *)
(* beacon_node/http_api/src/sync_committee_rewards.rs                      *)
(* (compute_sync_committee_rewards).                                       *)
(*                                                                         *)
(* One call of each function is a run of the state machine: the chain      *)
(* state the call reads is drawn in Init, the answers of the external      *)
(* collaborators are drawn by the actions that call them.                  *)
(***************************************************************************)
EXTENDS Integers, Sequences, FiniteSets, TLC

(* ------------------------------ bounds -------------------------------- *)

\* Number of validators in the beacon state (indices 0 .. NumValidators-1).
NumValidators == 2

\* Width of the unsigned machine word standing for u64.  The arithmetic of
\* the code is kept exactly (checked multiplication, casts), on a narrower
\* word, so that overflow is reachable with small inputs.
U64Bits == 16

U64Modulus == 2 ^ U64Bits

MaxU64 == U64Modulus - 1

\* u32 is half the width of u64.
U32Modulus == 2 ^ (U64Bits \div 2)

(* ------------------- constants of the consensus crates ----------------- *)

\* types::consts::altair (imported at attestation_rewards.rs:12-15).
WEIGHT_DENOMINATOR == 64

TIMELY_SOURCE_FLAG_INDEX == 0

TIMELY_TARGET_FLAG_INDEX == 1

TIMELY_HEAD_FLAG_INDEX == 2

TIMELY_SOURCE_WEIGHT == 14

TIMELY_TARGET_WEIGHT == 26

TIMELY_HEAD_WEIGHT == 14

\* The fixed array both loops iterate: [SOURCE, TARGET, HEAD].
FlagOrder == <<TIMELY_SOURCE_FLAG_INDEX, TIMELY_TARGET_FLAG_INDEX, TIMELY_HEAD_FLAG_INDEX>>

Flags == {TIMELY_SOURCE_FLAG_INDEX, TIMELY_TARGET_FLAG_INDEX, TIMELY_HEAD_FLAG_INDEX}

\* for effective_balance_eth in 0..=32
MaxBucket == 32

Buckets == 0 .. MaxBucket

\* The three bindings made before the first loop; the loops shadow them, the
\* closure of the fold and the penalty arms read them.
outer_flag_index == 0

outer_weight == 0

outer_base_reward == 0

(* --------------------------- safe_arith -------------------------------- *)

\* The Err(ArithError) of SafeArith; every u64 value is >= 0.
ArithError == -1

wrapping_mul(a, b) == (a * b) % U64Modulus

safe_mul(a, b) == IF a * b > MaxU64 THEN ArithError ELSE a * b

safe_div(a, b) == IF b = 0 THEN ArithError ELSE a \div b

\* Result::and_then(|x| x.safe_mul(b)) and Result::and_then(|x| x.safe_div(b))
and_then_mul(r, b) == IF r = ArithError THEN ArithError ELSE safe_mul(r, b)

and_then_div(r, b) == IF r = ArithError THEN ArithError ELSE safe_div(r, b)

\* `x as u32` of a u64, `x as i64` of a u64, `x as u64` of a signed value.
AsU32(x) == x % U32Modulus

AsI64(x) == IF x >= U64Modulus \div 2 THEN x - U64Modulus ELSE x

AsU64(x) == x % U64Modulus

\* Rust's `/` on signed integers truncates toward zero.
TruncDiv(a, b) == IF a >= 0 THEN a \div b ELSE -((-a) \div b)

(* ------------------------------ state ---------------------------------- *)

VARIABLES
    \* the beacon state and chain spec the call reads
    effective_balance_increment,  \* spec.effective_balance_increment
    in_inactivity_leak,           \* state.is_in_inactivity_leak(previous_epoch, spec)
    base_reward_per_increment,    \* BaseRewardPerIncrement::new(total_active_balance, spec)
    balances,                     \* validator -> effective balance
    eligible,                     \* validators with is_eligible_validator = true
    participating,                \* flag -> unslashed participating indices
    \* the call of compute_attestation_rewards
    pc,
    validators,                   \* the Vec<usize> argument
    execution_optimistic,
    cache_has_epoch,              \* get_unslashed_participating_indices(..).is_ok()
    flag_pos,                     \* position of the first loop in FlagOrder
    ideal_rewards_hashmap,        \* (flag, bucket) -> ideal reward
    ideal_rewards,                \* Vec<IdealAttestationRewards>
    index,                        \* the list the second loop walks
    pos,                          \* its position in that list
    total_rewards,                \* Vec<TotalAttestationRewards>
    result,                       \* "none", "Ok", "Err", "Panic"
    error_kind,                   \* the rejection of an Err result
    \* the call of compute_sync_committee_rewards
    sync_pc,
    block_id,
    block_optimistic,             \* the flag blinded_block returned
    state_lookup,                 \* what chain.get_state answered
    sync_rewards,                 \* what compute_sync_aggregate_rewards yielded
    sync_result,                  \* "none", "Ok", "Err", "Panic"
    sync_error_kind,
    sync_out                      \* the SyncCommitteeAttestationRewards returned

state_vars == <<effective_balance_increment, in_inactivity_leak, base_reward_per_increment,
                balances, eligible, participating>>

call_vars == <<pc, validators, execution_optimistic, cache_has_epoch, flag_pos,
               ideal_rewards_hashmap, ideal_rewards, index, pos, total_rewards, result,
               error_kind>>

sync_vars == <<sync_pc, block_id, block_optimistic, state_lookup, sync_rewards, sync_result,
               sync_error_kind, sync_out>>

vars == <<state_vars, call_vars, sync_vars>>

Validators == 0 .. (NumValidators - 1)


(* ------------------- the beacon state read by a call ------------------- *)

\* Effective balances: multiples of the increment, the third one above the
\* 32 increments the table covers.
BalanceChoices == <<16, 64, 80, 0>>

BalanceLayouts == { [v \in Validators |-> BalanceChoices[((v + 2 * k) % 4) + 1]] : k \in 0 .. 1 }

\* The participation flags one eligible validator can have set.
ParticipationChoices == { {},
                          {TIMELY_SOURCE_FLAG_INDEX, TIMELY_TARGET_FLAG_INDEX, TIMELY_HEAD_FLAG_INDEX},
                          {TIMELY_SOURCE_FLAG_INDEX, TIMELY_HEAD_FLAG_INDEX},
                          {TIMELY_TARGET_FLAG_INDEX} }

IncrementChoices == {0, 2}

BrpiChoices == {ArithError, 1, 100, 3000}

\* Requests: the empty list ("all eligible"), known indices, and the index
\* NumValidators, which the state does not hold.
RequestChoices == { <<>>, <<0>>, <<1, 0>>, <<NumValidators>>, <<0, NumValidators>> }

RECURSIVE SumBalances(_, _)
SumBalances(bal, S) ==
    IF S = {} THEN 0
    ELSE LET v == CHOOSE x \in S : TRUE
         IN  bal[v] + SumBalances(bal, S \ {v})

\* The members of a set of naturals from n up to max, ascending.
RECURSIVE Ascending(_, _, _)
Ascending(S, n, max) ==
    IF n > max THEN <<>>
    ELSE (IF n \in S THEN <<n>> ELSE <<>>) \o Ascending(S, n + 1, max)

SortedSeq(S) ==
    IF S = {} THEN <<>>
    ELSE Ascending(S, 0, CHOOSE x \in S : \A y \in S : y <= x)

\* get_flag_weight: the weight of a known flag, an error for any other index.
get_flag_weight(flag_index) ==
    CASE flag_index = TIMELY_SOURCE_FLAG_INDEX -> TIMELY_SOURCE_WEIGHT
      [] flag_index = TIMELY_TARGET_FLAG_INDEX -> TIMELY_TARGET_WEIGHT
      [] flag_index = TIMELY_HEAD_FLAG_INDEX -> TIMELY_HEAD_WEIGHT
      [] OTHER -> ArithError

\* participation_cache.get_unslashed_participating_indices(flag, previous_epoch)
get_unslashed_participating_indices(flag_index) == participating[flag_index]

\* UnslashedParticipatingIndices::total_balance
total_balance(indices) == SumBalances(balances, indices)

\* participation_cache.current_epoch_total_active_balance()
current_epoch_total_active_balance == SumBalances(balances, Validators)

\* participation_cache.eligible_validator_indices(): ascending validator index.
eligible_validator_indices == SortedSeq(eligible)

\* state.is_eligible_validator(previous_epoch, v) of an index the state holds.
is_eligible_validator(v) == v \in eligible


(* --------------------- the ideal-reward table (60-141) ------------------ *)

\* The result of one cell: kind "none" with the value inserted, or the
\* rejection the `?` returns.
CellOk(v) == [kind |-> "none", value |-> v]

CellErr(k) == [kind |-> k, value |-> 0]

\* effective_balance_eth.safe_mul(base_reward_per_increment.as_u64())
base_reward_of(effective_balance_eth, brpi) == safe_mul(effective_balance_eth, brpi)

\* base_reward.safe_mul(weight).and_then(|n| n.safe_mul(unslashed_participating_increments))
reward_numerator_wrapping(base_reward, weight, unslashed_participating_increments) ==
    wrapping_mul(wrapping_mul(base_reward, weight), unslashed_participating_increments)

reward_numerator_of(base_reward, weight, unslashed_participating_increments) ==
    and_then_mul(safe_mul(base_reward, weight), unslashed_participating_increments)

\* reward_numerator.safe_div(active_increments).and_then(|r| r.safe_div(WEIGHT_DENOMINATOR))
ideal_reward_of(reward_numerator, active_increments) ==
    and_then_div(safe_div(reward_numerator, active_increments), WEIGHT_DENOMINATOR)

\* The value inserted at (flag, bucket): the ideal reward, or 0 during a leak.
inserted_ignoring_leak(leak, ideal_reward) == ideal_reward

inserted_value(leak, ideal_reward) == IF ~leak THEN ideal_reward ELSE 0

\* The body of the inner loop for one bucket.
ideal_cell(weight, unslashed_participating_increments, active_increments, brpi, b) ==
    LET base_reward == base_reward_of(b, brpi)
    IN  IF base_reward = ArithError THEN CellErr("not_found")
        ELSE LET reward_numerator ==
                     reward_numerator_of(base_reward, weight, unslashed_participating_increments)
             IN  IF reward_numerator = ArithError THEN CellErr("server_error")
                 ELSE LET ideal_reward == ideal_reward_of(reward_numerator, active_increments)
                      IN  IF ideal_reward = ArithError THEN CellErr("server_error")
                          ELSE CellOk(inserted_value(in_inactivity_leak, ideal_reward))

\* The rejection of the first failing bucket of the inner loop, "none" if all
\* buckets succeed.
RECURSIVE first_cell_error(_, _)
first_cell_error(cells, b) ==
    IF b > MaxBucket THEN "none"
    ELSE IF b \in DOMAIN cells /\ cells[b].kind # "none" THEN cells[b].kind
    ELSE first_cell_error(cells, b + 1)

\* One iteration of the outer loop: the rejection it returns ("none" if it
\* completes) and the cells it inserts.
ideal_flag(flag_index) ==
    LET weight == get_flag_weight(flag_index)
        unslashed_participating_balance ==
            total_balance(get_unslashed_participating_indices(flag_index))
        unslashed_participating_increments ==
            safe_div(unslashed_participating_balance, effective_balance_increment)
        total_active_balance == current_epoch_total_active_balance
        active_increments == safe_div(total_active_balance, effective_balance_increment)
        brpi == base_reward_per_increment
        cells == [b \in Buckets |->
                     ideal_cell(weight, unslashed_participating_increments,
                                active_increments, brpi, b)]
        failed == first_cell_error(cells, 0)
    IN  IF weight = ArithError \/ ~cache_has_epoch
           \/ unslashed_participating_increments = ArithError
           \/ active_increments = ArithError \/ brpi = ArithError
        THEN [kind |-> "not_found", cells |-> << >>]
        ELSE IF failed # "none"
        THEN [kind |-> failed, cells |-> << >>]
        ELSE [kind |-> "none",
              cells |-> [k \in {<<flag_index, b>> : b \in Buckets} |-> cells[k[2]].value]]

(* ---------------------- the fold by bucket (143-166) -------------------- *)

RECURSIVE SumValues(_, _)
SumValues(map, keys) ==
    IF keys = {} THEN 0
    ELSE LET k == CHOOSE x \in keys : TRUE
         IN  map[k] + SumValues(map, keys \ {k})

\* acc.entry(*effective_balance_eth as u32)
fold_key_with_flag(cell) == AsU32(cell[2]) + (MaxBucket + 1) * cell[1]

fold_key(cell) == AsU32(cell[2])

\* The accumulator after the fold, before any overflow of `+=` is taken into
\* account: key -> entry.  The closure's `match flag_index` reads the binding
\* of line 56, not the key's flag, so one arm takes every cell.
folded(hashmap) ==
    LET keys == {fold_key(c) : c \in DOMAIN hashmap}
        cellsOf(k) == {c \in DOMAIN hashmap : fold_key(c) = k}
        sum(k) == SumValues(hashmap, cellsOf(k))
    IN  [k \in keys |->
            [effective_balance |-> (CHOOSE c \in cellsOf(k) : TRUE)[2],
             head   |-> IF outer_flag_index = TIMELY_HEAD_FLAG_INDEX THEN sum(k) ELSE 0,
             target |-> IF outer_flag_index = TIMELY_TARGET_FLAG_INDEX THEN sum(k) ELSE 0,
             source |-> IF outer_flag_index = TIMELY_SOURCE_FLAG_INDEX THEN sum(k) ELSE 0]]

add_overflows(acc) ==
    \E k \in DOMAIN acc : acc[k].head > MaxU64 \/ acc[k].target > MaxU64 \/ acc[k].source > MaxU64

\* `+=` on u64 in a release build wraps.
wrapped(acc) ==
    [k \in DOMAIN acc |->
        [effective_balance |-> acc[k].effective_balance,
         head |-> AsU64(acc[k].head), target |-> AsU64(acc[k].target),
         source |-> AsU64(acc[k].source)]]

Reverse(s) == [i \in 1 .. Len(s) |-> s[Len(s) + 1 - i]]

Rotate(s, r) == [i \in 1 .. Len(s) |-> s[((i - 1 + r) % Len(s)) + 1]]

\* HashMap::into_values yields the values in the map's own order, which is
\* not specified; these are some of the orders it can take.
into_values_orders(sorted) ==
    IF sorted = <<>> THEN { <<>> }
    ELSE { Rotate(sorted, r) : r \in 0 .. 2 } \cup { Reverse(sorted) }


(* ----------------------- total rewards (169-248) ------------------------ *)

\* ideal_rewards.iter().find(|reward| reward.effective_balance == bucket):
\* the position of the first match, 0 if there is none.
find_ideal(rewards, bucket) ==
    LET matches == {i \in 1 .. Len(rewards) : rewards[i].effective_balance = bucket}
    IN  IF matches = {} THEN 0
        ELSE CHOOSE i \in matches : \A j \in matches : i <= j

\* (-(base_reward as i64 as i128) * weight as i128 / WEIGHT_DENOMINATOR as i128) as u64
\* with the base_reward and weight in scope there: the bindings of lines 57-58.
penalty == AsU64(TruncDiv((-outer_base_reward) * outer_weight, WEIGHT_DENOMINATOR))

\* voted_correctly = get_unslashed_participating_indices(flag, previous_epoch).is_ok()
voted_correctly(flag_index) == cache_has_epoch

\* One iteration of the flag loop for a validator: the new values of
\* head_reward, target_reward and source_reward.
flag_step_unguarded(is_eligible, acc, flag_index, bucket) ==
    LET i == find_ideal(ideal_rewards, bucket)
    IN  IF i # 0
        THEN [head |-> ideal_rewards[i].head, target |-> ideal_rewards[i].target,
              source |-> ideal_rewards[i].source]
        ELSE acc

flag_step(is_eligible, acc, flag_index, bucket) ==
    IF is_eligible
    THEN IF voted_correctly(flag_index)
         THEN LET i == find_ideal(ideal_rewards, bucket)
              IN  IF i # 0
                  THEN [head |-> ideal_rewards[i].head, target |-> ideal_rewards[i].target,
                        source |-> ideal_rewards[i].source]
                  ELSE acc
         ELSE CASE flag_index = TIMELY_HEAD_FLAG_INDEX -> acc
                [] flag_index = TIMELY_TARGET_FLAG_INDEX -> [acc EXCEPT !.target = penalty]
                [] flag_index = TIMELY_SOURCE_FLAG_INDEX -> [acc EXCEPT !.source = penalty]
                [] OTHER -> acc
    ELSE acc

\* total_rewards.push(TotalAttestationRewards { .. })
record_of(validator_index, acc) ==
    [validator_index |-> validator_index, head |-> AsI64(acc.head),
     target |-> AsI64(acc.target), source |-> AsI64(acc.source), inclusion_delay |-> 0]

\* The flag loop of one validator from position i of FlagOrder on: the
\* records it pushes.  The push is inside the loop.
RECURSIVE flag_loop(_, _, _, _, _)
flag_loop(validator_index, is_eligible, acc, bucket, i) ==
    IF i > Len(FlagOrder) THEN <<>>
    ELSE LET next == flag_step(is_eligible, acc, FlagOrder[i], bucket)
         IN  <<record_of(validator_index, next)>>
                 \o flag_loop(validator_index, is_eligible, next, bucket, i + 1)

\* effective_balance_eth.ok().unwrap() inside the find closure panics on an
\* Err; the closure runs when the validator is eligible, the lookup is ok and
\* ideal_rewards is not empty.
unwrap_panics(is_eligible, effective_balance_eth) ==
    /\ is_eligible
    /\ \E f \in Flags : voted_correctly(f)
    /\ Len(ideal_rewards) > 0
    /\ effective_balance_eth = ArithError

\* The index list the loop walks.
selected_index == IF validators = <<>> THEN eligible_validator_indices ELSE validators


(* ------------------------------ Init ----------------------------------- *)

\* A validator that is not eligible for the previous epoch was not active in
\* it and has no participation flag set for it.
StateInit ==
    /\ effective_balance_increment \in IncrementChoices
    /\ in_inactivity_leak \in BOOLEAN
    /\ base_reward_per_increment \in BrpiChoices
    /\ balances \in BalanceLayouts
    /\ eligible \in SUBSET Validators
    /\ \E flags_of \in [Validators -> ParticipationChoices] :
           /\ \A v \in Validators : v \notin eligible => flags_of[v] = {}
           /\ participating = [f \in Flags |-> {v \in Validators : f \in flags_of[v]}]

CallInit ==
    /\ pc = "idle"
    /\ validators = <<>>
    /\ execution_optimistic = FALSE
    /\ cache_has_epoch = FALSE
    /\ flag_pos = 1
    /\ ideal_rewards_hashmap = << >>
    /\ ideal_rewards = <<>>
    /\ index = <<>>
    /\ pos = 1
    /\ total_rewards = <<>>
    /\ result = "none"
    /\ error_kind = "none"

SyncCallInit ==
    /\ sync_pc = "idle"
    /\ block_id = "none"
    /\ block_optimistic = FALSE
    /\ state_lookup = "not_called"
    /\ sync_rewards = <<>>
    /\ sync_result = "none"
    /\ sync_error_kind = "none"
    /\ sync_out = [execution_optimistic |-> FALSE, finalized |-> FALSE, data |-> <<>>]

Init == StateInit /\ CallInit /\ SyncCallInit

(* ---------------- compute_attestation_rewards, step by step ------------- *)

Fail(kind) ==
    /\ result' = "Err"
    /\ error_kind' = kind
    /\ pc' = "done"

\* The call: the caller's validator list.
Call ==
    /\ pc = "idle"
    /\ \E vs \in RequestChoices : validators' = vs
    /\ pc' = "get_state"
    /\ UNCHANGED <<state_vars, sync_vars, execution_optimistic, cache_has_epoch, flag_pos,
                   ideal_rewards_hashmap, ideal_rewards, index, pos, total_rewards,
                   result, error_kind>>

\* Lines 32-52: the head status, the state root, the state and the
\* participation cache, each of which can fail.
GetState ==
    /\ pc = "get_state"
    /\ \E outcome \in {"optimistic_error", "state_root_error", "state_root_none",
                       "state_error", "state_none", "cache_error", "ok"} :
          IF outcome = "ok"
          THEN /\ \E opt \in BOOLEAN : execution_optimistic' = opt
               /\ \E has \in BOOLEAN : cache_has_epoch' = has
               /\ pc' = "ideal"
               /\ UNCHANGED <<result, error_kind>>
          ELSE /\ Fail(IF outcome \in {"state_root_error", "state_error"}
                       THEN "beacon_chain_error" ELSE "not_found")
               /\ UNCHANGED <<execution_optimistic, cache_has_epoch>>
    /\ UNCHANGED <<state_vars, sync_vars, validators, flag_pos, ideal_rewards_hashmap,
                   ideal_rewards, index, pos, total_rewards>>

\* Lines 60-141: one iteration of the loop over the three flags.
BuildIdealFlag ==
    /\ pc = "ideal"
    /\ \E r \in {ideal_flag(FlagOrder[flag_pos])} :
           IF r.kind # "none"
           THEN /\ Fail(r.kind)
                /\ UNCHANGED <<flag_pos, ideal_rewards_hashmap>>
           ELSE /\ ideal_rewards_hashmap' = r.cells @@ ideal_rewards_hashmap
                /\ flag_pos' = flag_pos + 1
                /\ pc' = IF flag_pos = Len(FlagOrder) THEN "fold" ELSE "ideal"
                /\ UNCHANGED <<result, error_kind>>
    /\ UNCHANGED <<state_vars, sync_vars, validators, execution_optimistic, cache_has_epoch,
                   ideal_rewards, index, pos, total_rewards>>

\* Lines 143-176: the fold of the cells by bucket, collected in the order of
\* the accumulator map, and the choice of the index list.
FoldIdeal ==
    /\ pc = "fold"
    /\ \E acc \in {folded(ideal_rewards_hashmap)}, build \in {"debug", "release"} :
              IF add_overflows(acc) /\ build = "debug"
              THEN /\ result' = "Panic"
                   /\ pc' = "done"
                   /\ UNCHANGED <<ideal_rewards, index, error_kind>>
              ELSE /\ \E values \in {wrapped(acc)}, sorted \in {SortedSeq(DOMAIN acc)} :
                        \E order \in into_values_orders(sorted) :
                          ideal_rewards' = [i \in 1 .. Len(order) |-> values[order[i]]]
                   /\ index' = selected_index
                   /\ pc' = "total"
                   /\ UNCHANGED <<result, error_kind>>
    /\ UNCHANGED <<state_vars, sync_vars, validators, execution_optimistic, cache_has_epoch,
                   flag_pos, ideal_rewards_hashmap, pos, total_rewards>>

\* Lines 178-248: one validator of the index list.
TotalStep ==
    /\ pc = "total"
    /\ pos <= Len(index)
    /\ LET validator_index == index[pos]
       IN  IF validator_index \notin Validators
           THEN /\ Fail("server_error")
                /\ UNCHANGED <<pos, total_rewards>>
           ELSE LET is_eligible == is_eligible_validator(validator_index)
                    effective_balance == balances[validator_index]
                    effective_balance_eth ==
                        safe_div(effective_balance, effective_balance_increment)
                    zero == [head |-> 0, target |-> 0, source |-> 0]
                IN  IF unwrap_panics(is_eligible, effective_balance_eth)
                    THEN /\ result' = "Panic"
                         /\ pc' = "done"
                         /\ UNCHANGED <<pos, total_rewards, error_kind>>
                    ELSE /\ total_rewards' = total_rewards \o
                                flag_loop(validator_index, is_eligible, zero,
                                          effective_balance_eth, 1)
                         /\ pos' = pos + 1
                         /\ UNCHANGED <<pc, result, error_kind>>
    /\ UNCHANGED <<state_vars, sync_vars, validators, execution_optimistic, cache_has_epoch,
                   flag_pos, ideal_rewards_hashmap, ideal_rewards, index>>

\* Lines 250-256.
Return ==
    /\ pc = "total"
    /\ pos > Len(index)
    /\ result' = "Ok"
    /\ pc' = "done"
    /\ UNCHANGED <<state_vars, sync_vars, validators, execution_optimistic, cache_has_epoch,
                   flag_pos, ideal_rewards_hashmap, ideal_rewards, index, pos, total_rewards,
                   error_kind>>

Next == Call \/ GetState \/ BuildIdealFlag \/ FoldIdeal \/ TotalStep \/ Return

Spec == Init /\ [][Next]_vars


(* --------------- compute_sync_committee_rewards, step by step ----------- *)

BlockIdChoices == {"head", "finalized", "genesis"}

SyncRewardValues == {1, 2}

\* What compute_sync_aggregate_rewards can yield: a reward for none, one or
\* two committee members.
SyncRewardChoices ==
    { <<>> }
    \cup { <<[validator_index |-> v, reward |-> r]>> : v \in Validators, r \in SyncRewardValues }
    \cup { <<[validator_index |-> v, reward |-> r], [validator_index |-> w, reward |-> r]>> :
               v \in Validators, w \in Validators, r \in SyncRewardValues }

\* The beacon state is handed to compute_sync_aggregate_rewards only; its
\* answer is drawn by SyncCompute.
SyncStateInit ==
    /\ effective_balance_increment = 2
    /\ in_inactivity_leak = FALSE
    /\ base_reward_per_increment = 1
    /\ balances = [v \in Validators |-> BalanceChoices[(v % 4) + 1]]
    /\ eligible = Validators
    /\ participating = [f \in Flags |-> Validators]

SyncInit == SyncStateInit /\ CallInit /\ SyncCallInit

SyncFail(kind) ==
    /\ sync_result' = "Err"
    /\ sync_error_kind' = kind
    /\ sync_pc' = "done"

SyncCall ==
    /\ sync_pc = "idle"
    /\ \E id \in BlockIdChoices : block_id' = id
    /\ sync_pc' = "blinded_block"
    /\ UNCHANGED <<state_vars, call_vars, block_optimistic, state_lookup, sync_rewards,
                   sync_result, sync_error_kind, sync_out>>

\* Line 18: block_id.blinded_block(&chain)?
SyncBlindedBlock ==
    /\ sync_pc = "blinded_block"
    /\ \E outcome \in {"not_found", "ok"} :
          IF outcome = "ok"
          THEN /\ \E opt \in BOOLEAN : block_optimistic' = opt
               /\ sync_pc' = "get_state"
               /\ UNCHANGED <<sync_result, sync_error_kind>>
          ELSE /\ SyncFail("not_found")
               /\ UNCHANGED block_optimistic
    /\ UNCHANGED <<state_vars, call_vars, block_id, state_lookup, sync_rewards, sync_out>>

\* What `.unwrap()` does with the Option of get_state.
unwrap_state(lookup) == IF lookup = "none" THEN "panic" ELSE "value"

\* Line 24: chain.get_state(&state_root, Some(slot))?.unwrap()
SyncGetState ==
    /\ sync_pc = "get_state"
    /\ \E lookup \in {"error", "none", "some"} :
          /\ state_lookup' = lookup
          /\ IF lookup = "error"
             THEN /\ SyncFail("beacon_chain_error")
             ELSE IF unwrap_state(lookup) = "panic"
             THEN /\ sync_result' = "Panic"
                  /\ sync_pc' = "done"
                  /\ UNCHANGED sync_error_kind
             ELSE /\ sync_pc' = "compute"
                  /\ UNCHANGED <<sync_result, sync_error_kind>>
    /\ UNCHANGED <<state_vars, call_vars, block_id, block_optimistic, sync_rewards, sync_out>>

\* Line 29: compute_sync_aggregate_rewards(&state, &spec)?
SyncCompute ==
    /\ sync_pc = "compute"
    /\ \E outcome \in {"error", "ok"} :
          IF outcome = "ok"
          THEN /\ \E rewards \in SyncRewardChoices : sync_rewards' = rewards
               /\ sync_pc' = "return"
               /\ UNCHANGED <<sync_result, sync_error_kind>>
          ELSE /\ SyncFail("spec_error")
               /\ UNCHANGED sync_rewards
    /\ UNCHANGED <<state_vars, call_vars, block_id, block_optimistic, state_lookup, sync_out>>

\* Lines 34-38: the value returned.
returned_rewards(optimistic, rewards) ==
    [execution_optimistic |-> FALSE, finalized |-> FALSE, data |-> <<>>]

SyncReturn ==
    /\ sync_pc = "return"
    /\ sync_out' = returned_rewards(block_optimistic, sync_rewards)
    /\ sync_result' = "Ok"
    /\ sync_pc' = "done"
    /\ UNCHANGED <<state_vars, call_vars, block_id, block_optimistic, state_lookup,
                   sync_rewards, sync_error_kind>>

SyncNext == SyncCall \/ SyncBlindedBlock \/ SyncGetState \/ SyncCompute \/ SyncReturn

SyncSpec == SyncInit /\ [][SyncNext]_vars


(* ------------------------------ claims --------------------------------- *)

\* The values the reward pipeline has over the unbounded integers.
ExactParticipatingIncrements(f) ==
    total_balance(participating[f]) \div effective_balance_increment

ExactActiveIncrements == current_epoch_total_active_balance \div effective_balance_increment

ExactIdeal(f, b) ==
    (((b * base_reward_per_increment) * get_flag_weight(f) * ExactParticipatingIncrements(f))
        \div ExactActiveIncrements) \div WEIGHT_DENOMINATOR

ExactIdealSum(b) ==
    ExactIdeal(TIMELY_SOURCE_FLAG_INDEX, b) + ExactIdeal(TIMELY_TARGET_FLAG_INDEX, b)
        + ExactIdeal(TIMELY_HEAD_FLAG_INDEX, b)

\* The bucket of a validator the state holds (the increment is not zero).
BucketOf(v) == balances[v] \div effective_balance_increment

\* The entries of the returned table whose effective_balance is b.
EntriesAt(b) == {i \in 1 .. Len(ideal_rewards) : ideal_rewards[i].effective_balance = b}

\* C1: when the call returns Ok, total_rewards holds exactly one record per
\* index of the list walked (eligible_validator_indices() for an empty
\* request, the request otherwise), in the order of that list.
C1_OneRecordPerIndex ==
    result = "Ok" =>
        /\ Len(total_rewards) = Len(selected_index)
        /\ \A i \in 1 .. Len(total_rewards) :
               total_rewards[i].validator_index = selected_index[i]

\* C2: in every record of an eligible validator that is not among the
\* unslashed participating indices of a flag, the value of source and of
\* target is <= 0 and the value of head is 0.
C2_PenaltySign ==
    result = "Ok" =>
        \A i \in 1 .. Len(total_rewards) :
            LET r == total_rewards[i]
                v == r.validator_index
            IN  v \in eligible =>
                    /\ v \notin participating[TIMELY_SOURCE_FLAG_INDEX] => r.source <= 0
                    /\ v \notin participating[TIMELY_TARGET_FLAG_INDEX] => r.target <= 0
                    /\ v \notin participating[TIMELY_HEAD_FLAG_INDEX] => r.head = 0

\* C3: without a leak, an eligible validator at bucket b that voted correctly
\* on source and head but not on target has target equal to
\* -((b * base_reward_per_increment) * weight_target) / WEIGHT_DENOMINATOR, and
\* head and source equal to the table's values at bucket b.
C3_TargetPenalty ==
    (result = "Ok" /\ ~in_inactivity_leak) =>
        \A i \in 1 .. Len(total_rewards) :
            LET r == total_rewards[i]
                v == r.validator_index
            IN  ( /\ v \in eligible
                  /\ v \in participating[TIMELY_SOURCE_FLAG_INDEX]
                  /\ v \in participating[TIMELY_HEAD_FLAG_INDEX]
                  /\ v \notin participating[TIMELY_TARGET_FLAG_INDEX]
                  /\ BucketOf(v) \in 0 .. MaxBucket )
                =>  /\ r.target = TruncDiv(-((BucketOf(v) * base_reward_per_increment)
                                              * TIMELY_TARGET_WEIGHT), WEIGHT_DENOMINATOR)
                    /\ \A j \in EntriesAt(BucketOf(v)) :
                           /\ r.head = ideal_rewards[j].head
                           /\ r.source = ideal_rewards[j].source

\* C4: every record emitted for a validator that is not eligible has head,
\* target, source and inclusion_delay 0, whatever the table holds.
C4_IneligibleZero ==
    \A i \in 1 .. Len(total_rewards) :
        LET r == total_rewards[i]
        IN  r.validator_index \notin eligible =>
                r.head = 0 /\ r.target = 0 /\ r.source = 0 /\ r.inclusion_delay = 0

\* C4's case: the call returned a record of a validator that is not eligible
\* while the table holds a non-zero value at that validator's bucket.
C4_Witness ==
    /\ result = "Ok"
    /\ \E i \in 1 .. Len(total_rewards) :
           /\ total_rewards[i].validator_index \notin eligible
           /\ \E j \in 1 .. Len(ideal_rewards) :
                  /\ ideal_rewards[j].effective_balance
                        = BucketOf(total_rewards[i].validator_index)
                  /\ ideal_rewards[j].source > 0

\* C5: when the state is in an inactivity leak, every entry of the returned
\* ideal_rewards has head, target and source 0.
C5_LeakZero ==
    (result = "Ok" /\ in_inactivity_leak) =>
        \A i \in 1 .. Len(ideal_rewards) :
            /\ ideal_rewards[i].head = 0
            /\ ideal_rewards[i].target = 0
            /\ ideal_rewards[i].source = 0

\* C5's case: a call returned during a leak although a computed ideal reward
\* is not zero.
C5_Witness ==
    /\ result = "Ok"
    /\ in_inactivity_leak
    /\ Len(ideal_rewards) > 0
    /\ \E b \in 0 .. MaxBucket : ExactIdealSum(b) > 0

\* C6: when the call returns Ok, ideal_rewards has exactly 33 entries and each
\* effective_balance 0 .. 32 is the effective_balance of exactly one of them.
C6_BucketCoverage ==
    result = "Ok" =>
        /\ Len(ideal_rewards) = MaxBucket + 1
        /\ \A b \in 0 .. MaxBucket : Cardinality(EntriesAt(b)) = 1

\* C6's case: the call returned after the 99 cells of the three flags were
\* inserted and folded.
C6_Witness ==
    /\ result = "Ok"
    /\ Cardinality(DOMAIN ideal_rewards_hashmap) = 3 * (MaxBucket + 1)
    /\ \E i \in 1 .. Len(ideal_rewards) : ideal_rewards[i].source > 0

\* C7: the returned ideal_rewards is in non-decreasing effective_balance
\* order, whatever the order of the intermediate map.
C7_AscendingOrder ==
    result = "Ok" =>
        \A i \in 1 .. Len(ideal_rewards) : \A j \in 1 .. Len(ideal_rewards) :
            i < j => ideal_rewards[i].effective_balance <= ideal_rewards[j].effective_balance

\* A product of the pipeline exceeds the unsigned range, or a divisor is 0.
ArithmeticFault ==
    \/ effective_balance_increment = 0
    \/ /\ effective_balance_increment # 0
       /\ \/ ExactActiveIncrements = 0
          \/ /\ base_reward_per_increment # ArithError
             /\ \E f \in Flags, b \in 0 .. MaxBucket :
                    LET base_reward == b * base_reward_per_increment
                    IN  \/ base_reward > MaxU64
                        \/ base_reward * get_flag_weight(f) > MaxU64
                        \/ base_reward * get_flag_weight(f) * ExactParticipatingIncrements(f)
                               > MaxU64

\* C8: a call in which a product of the reward pipeline exceeds the unsigned
\* range or a divisor is zero ends with an error; a call that returns Ok
\* returns the values the pipeline has over the integers, none of them
\* wrapped, saturated or truncated.
C8_CheckedArithmetic ==
    /\ (pc = "done" /\ ArithmeticFault) => result = "Err"
    /\ result = "Ok" =>
           /\ ~ArithmeticFault
           /\ \A i \in 1 .. Len(ideal_rewards) :
                  LET e == ideal_rewards[i]
                  IN  e.head + e.target + e.source
                          = IF in_inactivity_leak THEN 0 ELSE ExactIdealSum(e.effective_balance)
           /\ \A i \in 1 .. Len(total_rewards) :
                  LET r == total_rewards[i]
                  IN  \/ r.head = 0 /\ r.target = 0 /\ r.source = 0
                      \/ \E j \in EntriesAt(BucketOf(r.validator_index)) :
                             /\ r.head = ideal_rewards[j].head
                             /\ r.target = ideal_rewards[j].target
                             /\ r.source = ideal_rewards[j].source

\* C8's case: the third factor of a reward numerator overflowed and the call
\* ended with the server error of that step, without a result.
C8_Witness ==
    /\ result = "Err"
    /\ error_kind = "server_error"
    /\ total_rewards = <<>>
    /\ effective_balance_increment # 0
    /\ base_reward_per_increment # ArithError
    /\ \E f \in Flags, b \in 0 .. MaxBucket :
           /\ (b * base_reward_per_increment) * get_flag_weight(f) <= MaxU64
           /\ (b * base_reward_per_increment) * get_flag_weight(f)
                  * ExactParticipatingIncrements(f) > MaxU64

\* C9: when the sync call succeeds, its data holds one reward per member
\* compute_sync_aggregate_rewards yielded, and its execution_optimistic is the
\* flag blinded_block returned.
C9_SyncPassThrough ==
    sync_result = "Ok" =>
        /\ sync_out.execution_optimistic = block_optimistic
        /\ Len(sync_out.data) = Len(sync_rewards)
        /\ \A i \in 1 .. Len(sync_rewards) : sync_out.data[i] = sync_rewards[i]

\* C10: when get_state has no state for the block's state root and slot, the
\* call ends with a not-found error: no panic, no success.
C10_MissingStateNotFound ==
    state_lookup = "none" => (sync_result = "Err" /\ sync_error_kind = "not_found")

====
